---- MODULE Spec2Model ----
(***************************************************************************)
(* Leveled logger of go-utils/log: the LogLevel type (String, ParseLevel), *)
(* the Logger constructor NewLevel, consumer registration (Split) and the  *)
(* dispatch algorithm prefixOutput with its per-consumer select between a  *)
(* channel send and a timeout timer.                                       *)
(*                                                                         *)
(* Go strings are sequences of one-character strings.  Channels are       *)
(* numbered; each has a capacity, a buffer and one consumer goroutine.     *)
(***************************************************************************)
EXTENDS Integers, Sequences, FiniteSets, TLC

\* ------------------------------------------------------------------ levels

NULL == -1
EMERG == 0
ALERT == 1
CRIT == 2
ERR == 3
WARNING == 4
NOTICE == 5
INFO == 6
DEBUG == 7

LevelNames ==
  << <<"E","M","E","R","G">>,
     <<"A","L","E","R","T">>,
     <<"C","R","I","T">>,
     <<"E","R","R">>,
     <<"W","A","R","N","I","N","G">>,
     <<"N","O","T","I","C","E">>,
     <<"I","N","F","O">>,
     <<"D","E","B","U","G">> >>

maxLevel == Len(LevelNames) - 1

INVALID == <<"I","N","V","A","L","I","D">>

Nil == "nil"
InvalidLogLevelError == "log level invalid or out of bounds"

\* ------------------------------------------------------------------ bounds

\* how far beyond NULL..DEBUG the integer inputs range
Margin == 2
\* dispatch calls per run
MaxCalls == 2
\* Split calls per run
MaxSplits == 2

Ints == (NULL - Margin)..(DEBUG + Margin)
\* float64 inputs are the multiples of 1/FloatDen in the range of Ints
FloatDen == 2
Floats == (NULL - Margin) * FloatDen .. (DEBUG + Margin) * FloatDen
\* thresholds the owner assigns to Logger.Level
Thresholds == NULL..DEBUG
\* levels of the severity-named entry points
MsgLevels == EMERG..DEBUG
Texts == { <<"h","i">> }

\* channel 1 is unbuffered, make(chan Message); NilChan is the nil channel
\* (var c chan Message), on which a send blocks forever
Chans == {1}
ChanCap == <<0>>
NilChan == 0
Procs == {1, 2}
Owner == 1

\* ------------------------------------------------------------ LogLevel

\* what an index expression outside the array yields in place of a value
IndexOutOfRange == <<"panic: runtime error: index out of range">>

\* names[i] with Go's 0-based index and its bounds check
At(names, i) ==
  IF i >= 0 /\ i < Len(names) THEN names[i + 1] ELSE IndexOutOfRange

\* the lower bound left untested: NULL indexes LevelNames
StringUpperBoundOnly(v) ==
  IF v > maxLevel THEN INVALID ELSE At(LevelNames, v)

\* v.String()
String(v) ==
  IF v < 0 \/ v > maxLevel THEN INVALID ELSE At(LevelNames, v)

\* 1 * time.Second, the unit of Logger.Timeout
Second == 1

NewLoggerValue(level, inc) ==
  [Level |-> level, IncludeLevel |-> inc, Timeout |-> 1 * Second,
   MissedMessages |-> 0, levelChannels |-> <<>>, allChannels |-> <<>>]

\* a *Logger is nil or points to one Logger value
NilLogger == <<>>

\* the bound test written with >= : DEBUG itself is refused
NewLevelRefusesDebug(level, inc) ==
  IF level >= maxLevel
    THEN [logger |-> NilLogger, err |-> InvalidLogLevelError]
    ELSE [logger |-> <<NewLoggerValue(level, inc)>>, err |-> Nil]

\* NewLevel(level, inc, out, prefix, flag): the pair (newLogger, err)
NewLevel(level, inc) ==
  IF level > maxLevel
    THEN [logger |-> NilLogger, err |-> InvalidLogLevelError]
    ELSE [logger |-> <<NewLoggerValue(level, inc)>>, err |-> Nil]

\* ------------------------------------------------------------ ParseLevel

Lower == <<"a","b","c","d","e","f","g","h","i","j","k","l","m",
           "n","o","p","q","r","s","t","u","v","w","x","y","z">>
Upper == <<"A","B","C","D","E","F","G","H","I","J","K","L","M",
           "N","O","P","Q","R","S","T","U","V","W","X","Y","Z">>

UpperChar(ch) ==
  IF \E i \in DOMAIN Lower : Lower[i] = ch
    THEN Upper[CHOOSE i \in DOMAIN Lower : Lower[i] = ch]
    ELSE ch

LowerChar(ch) ==
  IF \E i \in DOMAIN Upper : Upper[i] = ch
    THEN Lower[CHOOSE i \in DOMAIN Upper : Upper[i] = ch]
    ELSE ch

\* strings.ToUpper
ToUpper(t) == [i \in DOMAIN t |-> UpperChar(t[i])]

\* int(t) of a float64 t = h / FloatDen: truncation toward zero
Trunc(h) == IF h >= 0 THEN h \div FloatDen ELSE -((-h) \div FloatDen)

\* the comparison made without strings.ToUpper: only upper-case input matches
ParseStringCaseSensitive(t) ==
  LET hits == {i \in DOMAIN LevelNames : LevelNames[i] = t}
  IN IF hits # {}
       THEN [level |-> (CHOOSE i \in hits : \A j \in hits : i <= j) - 1, err |-> Nil]
       ELSE [level |-> NULL, err |-> InvalidLogLevelError]

\* the position in LevelNames counted from one: "EMERG" parses as ALERT
ParseStringOneBased(t) ==
  LET tu == ToUpper(t)
      hits == {i \in DOMAIN LevelNames : LevelNames[i] = tu}
  IN IF hits # {}
       THEN [level |-> CHOOSE i \in hits : \A j \in hits : i <= j, err |-> Nil]
       ELSE [level |-> NULL, err |-> InvalidLogLevelError]

\* case string: the first LevelNames entry equal to the upper-cased input
ParseString(t) ==
  LET tu == ToUpper(t)
      hits == {i \in DOMAIN LevelNames : LevelNames[i] = tu}
  IN IF hits # {}
       THEN [level |-> (CHOOSE i \in hits : \A j \in hits : i <= j) - 1, err |-> Nil]
       ELSE [level |-> NULL, err |-> InvalidLogLevelError]

\* case float64, t = h / FloatDen
ParseFloat(h) ==
  [level |-> Trunc(h),
   err |-> IF h > maxLevel * FloatDen \/ h < 0 * FloatDen
             THEN InvalidLogLevelError ELSE Nil]

\* an out-of-range int forced to NULL instead of being passed through
ParseIntForcesNull(t) ==
  IF t > maxLevel \/ t < 0
    THEN [level |-> NULL, err |-> InvalidLogLevelError]
    ELSE [level |-> t, err |-> Nil]

\* case int
ParseInt(t) ==
  [level |-> t,
   err |-> IF t > maxLevel \/ t < 0 THEN InvalidLogLevelError ELSE Nil]

\* ParseLevel(input): the pair (level, err); n := NULL and a nil err are what
\* remains when no case of the type switch matches
ParseLevel(input) ==
  CASE input.type = "string" -> ParseString(input.val)
    [] input.type = "float64" -> ParseFloat(input.val)
    [] input.type = "int" -> ParseInt(input.val)
    [] OTHER -> [level |-> NULL, err |-> Nil]

\* ------------------------------------------------------------ state

VARIABLES
  Level, IncludeLevel, Timeout, MissedMessages, levelChannels, allChannels,
  written,     \* the io.Writer: the texts written since the caller last checked it
  pc, phase, idx, cur, reg, trace,   \* one prefixOutput activation per goroutine
  after,       \* what the entry point does once prefixOutput has returned
  calls,       \* prefixOutput calls made so far
  splits,      \* Split calls made so far
  attempts,    \* select statements entered so far
  buf, cons, held, sent, recvd,      \* channels and their consumer goroutines
  closed,      \* the channels close(c) has been called on
  process,     \* the operating-system process: running, exited or panicked
  ret          \* result of the most recent NewLevel / ParseLevel / String call

loggerVars == <<Level, IncludeLevel, Timeout, MissedMessages, levelChannels, allChannels>>
procVars == <<pc, phase, idx, cur, reg, trace, after>>
chanVars == <<buf, cons, held, sent, recvd, closed>>
vars == <<loggerVars, written, procVars, calls, splits, attempts, chanVars, process, ret>>

NoMsg == [Level |-> NULL, Message |-> <<>>]
Running == [state |-> "running"]

RestInit ==
  /\ written = <<>>
  /\ pc = [p \in Procs |-> "idle"]
  /\ phase = [p \in Procs |-> "all"]
  /\ idx = [p \in Procs |-> 0]
  /\ cur = [p \in Procs |-> NoMsg]
  /\ reg = [p \in Procs |-> 0]
  /\ trace = [p \in Procs |-> <<>>]
  /\ after = [p \in Procs |-> "return"]
  /\ calls = 0
  /\ splits = 0
  /\ attempts = 0
  /\ buf = [c \in Chans |-> <<>>]
  /\ cons = [c \in Chans |-> "busy"]
  /\ held = [c \in Chans |-> NoMsg]
  /\ sent = [c \in Chans |-> 0]
  /\ recvd = [c \in Chans |-> 0]
  /\ closed = {}
  /\ process = Running
  /\ ret = [fn |-> "none"]

\* the logger as NewLevel returns it
Constructed(level, inc) ==
  LET r == NewLevel(level, inc) IN
  /\ r.err = Nil
  /\ Level = r.logger[1].Level
  /\ IncludeLevel = r.logger[1].IncludeLevel
  /\ Timeout = r.logger[1].Timeout
  /\ MissedMessages = r.logger[1].MissedMessages
  /\ levelChannels = r.logger[1].levelChannels
  /\ allChannels = r.logger[1].allChannels

Init ==
  /\ \E level \in Thresholds, inc \in BOOLEAN : Constructed(level, inc)
  /\ RestInit

\* ------------------------------------------------------------ owner

\* l.Level = t, between dispatch calls
SetLevel(p, t) ==
  /\ pc[p] = "idle"
  /\ t # Level
  /\ Level' = t
  /\ UNCHANGED <<IncludeLevel, Timeout, MissedMessages, levelChannels, allChannels,
                 written, procVars, calls, splits, attempts, chanVars, process, ret>>

\* a channel already in the list is not appended again
SplitDedup(p, c, sendAll) ==
  LET has(list) == \E i \in DOMAIN list : list[i] = c IN
  /\ pc[p] = "idle"
  /\ splits < MaxSplits
  /\ splits' = splits + 1
  /\ IF sendAll
       THEN /\ allChannels' = IF has(allChannels) THEN allChannels ELSE Append(allChannels, c)
            /\ UNCHANGED levelChannels
       ELSE /\ levelChannels' = IF has(levelChannels) THEN levelChannels ELSE Append(levelChannels, c)
            /\ UNCHANGED allChannels
  /\ UNCHANGED <<Level, IncludeLevel, Timeout, MissedMessages,
                 written, procVars, calls, attempts, chanVars, process, ret>>

\* logger.Split(c, sendAll)
Split(p, c, sendAll) ==
  /\ pc[p] = "idle"
  /\ splits < MaxSplits
  /\ splits' = splits + 1
  /\ IF sendAll
       THEN /\ allChannels' = Append(allChannels, c)
            /\ UNCHANGED levelChannels
       ELSE /\ levelChannels' = Append(levelChannels, c)
            /\ UNCHANGED allChannels
  /\ UNCHANGED <<Level, IncludeLevel, Timeout, MissedMessages,
                 written, procVars, calls, attempts, chanVars, process, ret>>

\* ------------------------------------------------------------ prefixOutput

chanList(ph) == IF ph = "all" THEN allChannels ELSE levelChannels

\* the level check left out: the filtered loop follows the first loop directly
AfterAttemptNoCheck(ph, i) ==
  IF i < Len(chanList(ph))
    THEN [pc |-> "select", phase |-> ph, idx |-> i + 1]
    ELSE IF ph = "all" /\ levelChannels # <<>>
      THEN [pc |-> "select", phase |-> "level", idx |-> 1]
      ELSE [pc |-> "output", phase |-> "level", idx |-> 0]

\* where control goes once the range loop of phase ph has handled index i
AfterAttempt(ph, i) ==
  IF i < Len(chanList(ph))
    THEN [pc |-> "select", phase |-> ph, idx |-> i + 1]
    ELSE IF ph = "all"
      THEN [pc |-> "check", phase |-> "all", idx |-> 0]
      ELSE [pc |-> "output", phase |-> "level", idx |-> 0]

Goto(p, to) ==
  /\ pc' = [pc EXCEPT ![p] = to.pc]
  /\ phase' = [phase EXCEPT ![p] = to.phase]
  /\ idx' = [idx EXCEPT ![p] = to.idx]
  /\ attempts' = IF to.pc = "select" THEN attempts + 1 ELSE attempts

SendEvent(p, ok) ==
  [ev |-> "send", list |-> phase[p], i |-> idx[p], ch |-> chanList(phase[p])[idx[p]], ok |-> ok]

\* the level check placed first, as before Split existed: nothing is sent to
\* allChannels
FirstStepIsCheck == [pc |-> "check", phase |-> "all", idx |-> 0]

\* the first statement of prefixOutput: the range loop over allChannels
FirstStep == AfterAttempt("all", 0)

\* an entry point calls logger.prefixOutput(level, msg) and the first select
\* starts; then is what the entry point does when prefixOutput has returned
Enter(p, level, msg, then) ==
  /\ pc[p] = "idle"
  /\ calls < MaxCalls
  /\ calls' = calls + 1
  /\ cur' = [cur EXCEPT ![p] = [Level |-> level, Message |-> msg]]
  /\ trace' = [trace EXCEPT ![p] = <<>>]
  /\ after' = [after EXCEPT ![p] = then]
  /\ Goto(p, FirstStep)
  /\ UNCHANGED <<loggerVars, written, reg, splits, chanVars, process, ret>>

\* Debug ... Emerg and their ln and f forms: prefixOutput(level, msg) and return
Call(p, level, msg) == Enter(p, level, msg, "return")

\* a send on c can proceed: a receiver is waiting or the buffer has room
CanSend(c) ==
  /\ c # NilChan
  /\ c \notin closed
  /\ \/ cons[c] = "recv"
     \/ Len(buf[c]) < ChanCap[c]

\* case c <- Message{level, msg, time.Now()}:
Deliver(p) ==
  LET c == chanList(phase[p])[idx[p]] IN
  /\ pc[p] = "select"
  /\ CanSend(c)
  /\ IF cons[c] = "recv"
       THEN /\ cons' = [cons EXCEPT ![c] = "got"]
            /\ held' = [held EXCEPT ![c] = cur[p]]
            /\ UNCHANGED buf
       ELSE /\ buf' = [buf EXCEPT ![c] = Append(@, cur[p])]
            /\ UNCHANGED <<cons, held>>
  /\ sent' = [sent EXCEPT ![c] = @ + 1]
  /\ trace' = [trace EXCEPT ![p] = Append(@, SendEvent(p, TRUE))]
  /\ Goto(p, AfterAttempt(phase[p], idx[p]))
  /\ UNCHANGED <<loggerVars, written, cur, reg, after, calls, splits, recvd, closed, process, ret>>

\* case c <- Message{...} on a channel that is closed, or that is closed while
\* the select waits: the send panics
SendOnClosed(p) ==
  /\ pc[p] = "select"
  /\ chanList(phase[p])[idx[p]] \in closed
  /\ pc' = [pc EXCEPT ![p] = "panic"]
  /\ process' = [state |-> "panicked", value |-> <<"send on closed channel">>]
  /\ UNCHANGED <<loggerVars, written, phase, idx, cur, reg, trace, after, calls, splits,
                 attempts, chanVars, ret>>

\* one timer made before the loop instead of one per select: once it has fired
\* in a dispatch, no later select of that dispatch times out
TimerFireOnce(p) ==
  /\ pc[p] = "select"
  /\ \A k \in DOMAIN trace[p] : trace[p][k].ev = "send" => trace[p][k].ok
  /\ pc' = [pc EXCEPT ![p] = "inc"]
  /\ reg' = [reg EXCEPT ![p] = MissedMessages]
  /\ trace' = [trace EXCEPT ![p] = Append(@, SendEvent(p, FALSE))]
  /\ UNCHANGED <<loggerVars, written, phase, idx, cur, after, calls, splits, attempts, chanVars, process, ret>>

\* case <-time.After(logger.Timeout): the timer fires and MissedMessages is read.
\* Durations are not measured: a started timer may fire at any later moment,
\* also when the channel could accept.
TimerFire(p) ==
  /\ pc[p] = "select"
  /\ pc' = [pc EXCEPT ![p] = "inc"]
  /\ reg' = [reg EXCEPT ![p] = MissedMessages]
  /\ trace' = [trace EXCEPT ![p] = Append(@, SendEvent(p, FALSE))]
  /\ UNCHANGED <<loggerVars, written, phase, idx, cur, after, calls, splits, attempts, chanVars, process, ret>>

\* MissedMessages = +1 written for MissedMessages++
IncrementSetsOne(p) ==
  /\ pc[p] = "inc"
  /\ MissedMessages' = 1
  /\ reg' = [reg EXCEPT ![p] = 0]
  /\ Goto(p, AfterAttempt(phase[p], idx[p]))
  /\ UNCHANGED <<Level, IncludeLevel, Timeout, levelChannels, allChannels,
                 written, cur, trace, after, calls, splits, chanVars, process, ret>>

\* the increment done as one atomic add, atomic.AddInt64(&MissedMessages, 1)
IncrementAtomic(p) ==
  /\ pc[p] = "inc"
  /\ MissedMessages' = MissedMessages + 1
  /\ reg' = [reg EXCEPT ![p] = 0]
  /\ Goto(p, AfterAttempt(phase[p], idx[p]))
  /\ UNCHANGED <<Level, IncludeLevel, Timeout, levelChannels, allChannels,
                 written, cur, trace, after, calls, splits, chanVars, process, ret>>

\* a timeout in the filtered loop ends the dispatch: return after the increment
IncrementGivesUp(p) ==
  /\ pc[p] = "inc"
  /\ MissedMessages' = reg[p] + 1
  /\ reg' = [reg EXCEPT ![p] = 0]
  /\ IF phase[p] = "level"
       THEN Goto(p, [pc |-> "done", phase |-> "level", idx |-> 0])
       ELSE Goto(p, AfterAttempt(phase[p], idx[p]))
  /\ UNCHANGED <<Level, IncludeLevel, Timeout, levelChannels, allChannels,
                 written, cur, trace, after, calls, splits, chanVars, process, ret>>

\* logger.MissedMessages++ stores the incremented value
Increment(p) ==
  /\ pc[p] = "inc"
  /\ MissedMessages' = reg[p] + 1
  /\ reg' = [reg EXCEPT ![p] = 0]
  /\ Goto(p, AfterAttempt(phase[p], idx[p]))
  /\ UNCHANGED <<Level, IncludeLevel, Timeout, levelChannels, allChannels,
                 written, cur, trace, after, calls, splits, chanVars, process, ret>>

\* the comparison written with >= : a message at the threshold is dropped
SuppressedAtThreshold(level) == level >= Level

\* the comparison off by one the other way: the level just below the threshold
\* passes, so EMERG passes a NULL threshold
SuppressedBelowOnly(level) == level > Level + 1

\* the level the tests construct their logger with, NewLevel(EMERG, true, ...)
TestLevel == EMERG

\* the comparison made against the level given at construction: a later
\* assignment to Logger.Level has no effect
SuppressedAtConstruction(level) == level > TestLevel

\* if level > logger.Level { return }
Suppressed(level) == level > Level

\* a suppressed message counted as a missed one
LevelCheckCountsSuppressed(p) ==
  /\ pc[p] = "check"
  /\ trace' = [trace EXCEPT ![p] = Append(@, [ev |-> "check", pass |-> ~Suppressed(cur[p].Level)])]
  /\ IF Suppressed(cur[p].Level)
       THEN /\ MissedMessages' = MissedMessages + 1
            /\ Goto(p, [pc |-> "done", phase |-> "all", idx |-> 0])
       ELSE /\ UNCHANGED MissedMessages
            /\ Goto(p, AfterAttempt("level", 0))
  /\ UNCHANGED <<Level, IncludeLevel, Timeout, levelChannels, allChannels,
                 written, cur, reg, after, calls, splits, chanVars, process, ret>>

LevelCheck(p) ==
  /\ pc[p] = "check"
  /\ trace' = [trace EXCEPT ![p] = Append(@, [ev |-> "check", pass |-> ~Suppressed(cur[p].Level)])]
  /\ IF Suppressed(cur[p].Level)
       THEN Goto(p, [pc |-> "done", phase |-> "all", idx |-> 0])
       ELSE Goto(p, AfterAttempt("level", 0))
  /\ UNCHANGED <<loggerVars, written, cur, reg, after, calls, splits, chanVars, process, ret>>

\* the prefix taken from the logger's threshold instead of the message's level
OutputTextThresholdName(level, msg) ==
  IF IncludeLevel THEN String(Level) \o <<" ">> \o msg ELSE msg

\* the string handed to logger.Output(3, ...)
OutputText(level, msg) ==
  IF IncludeLevel THEN String(level) \o <<" ">> \o msg ELSE msg

Output(p) ==
  /\ pc[p] = "output"
  /\ written' = Append(written, OutputText(cur[p].Level, cur[p].Message))
  /\ trace' = [trace EXCEPT ![p] = Append(@, [ev |-> "write"])]
  /\ Goto(p, [pc |-> "done", phase |-> "level", idx |-> 0])
  /\ UNCHANGED <<loggerVars, cur, reg, after, calls, splits, chanVars, process, ret>>

\* prefixOutput has returned; the caller checks and clears the writer (w.Check())
\* and goes on
Return(p) ==
  /\ pc[p] = "done"
  /\ after[p] = "return"
  /\ pc' = [pc EXCEPT ![p] = "idle"]
  /\ phase' = [phase EXCEPT ![p] = "all"]
  /\ cur' = [cur EXCEPT ![p] = NoMsg]
  /\ trace' = [trace EXCEPT ![p] = <<>>]
  /\ written' = <<>>
  /\ UNCHANGED <<loggerVars, idx, reg, after, calls, splits, attempts, chanVars, process, ret>>

\* fmt.Sprint, fmt.Sprintln and fmt.Sprintf applied to the one string text
\* (for Sprintf as a format without verbs): Sprintln appends a newline
Format(shape, text) ==
  IF shape = "ln" THEN text \o <<"\n">> ELSE text

\* Fatal, Fatalln, Fatalf: prefixOutput(EMERG, fmt.Sprint...(v...)), then os.Exit(1)
Fatal(p, shape, text) == Enter(p, EMERG, Format(shape, text), "exit")

\* Panic, Panicln, Panicf: s := fmt.Sprint...(v...); prefixOutput(EMERG, s), then panic(s)
Panic(p, shape, text) == Enter(p, EMERG, Format(shape, text), "panic")

\* os.Exit(1) reached from anywhere inside the call, as if the dispatch ran
\* in the background
ExitEarly(p) ==
  /\ pc[p] \in {"select", "check", "output", "done"}
  /\ after[p] = "exit"
  /\ pc' = [pc EXCEPT ![p] = "exited"]
  /\ process' = [state |-> "exited", status |-> 1]
  /\ UNCHANGED <<loggerVars, written, phase, idx, cur, reg, trace, after, calls, splits,
                 attempts, chanVars, ret>>

\* os.Exit(1), the statement after prefixOutput in Fatal, Fatalln, Fatalf
Exit(p) ==
  /\ pc[p] = "done"
  /\ after[p] = "exit"
  /\ pc' = [pc EXCEPT ![p] = "exited"]
  /\ process' = [state |-> "exited", status |-> 1]
  /\ UNCHANGED <<loggerVars, written, phase, idx, cur, reg, trace, after, calls, splits,
                 attempts, chanVars, ret>>

\* panic(s), the statement after prefixOutput in Panic, Panicln, Panicf
PanicWith(p) ==
  /\ pc[p] = "done"
  /\ after[p] = "panic"
  /\ pc' = [pc EXCEPT ![p] = "panic"]
  /\ process' = [state |-> "panicked", value |-> cur[p].Message]
  /\ UNCHANGED <<loggerVars, written, phase, idx, cur, reg, trace, after, calls, splits,
                 attempts, chanVars, ret>>

\* ------------------------------------------------------------ consumers

\* the consumer goroutine is started and reaches msg := <-c
ConsumerReceive(c) ==
  /\ cons[c] = "busy"
  /\ IF buf[c] # <<>>
       THEN /\ cons' = [cons EXCEPT ![c] = "got"]
            /\ held' = [held EXCEPT ![c] = Head(buf[c])]
            /\ buf' = [buf EXCEPT ![c] = Tail(@)]
       ELSE /\ cons' = [cons EXCEPT ![c] = "recv"]
            /\ UNCHANGED <<held, buf>>
  /\ UNCHANGED <<loggerVars, written, procVars, calls, splits, attempts, sent, recvd, closed, process, ret>>

\* the loop body (msgsRecvd++) ends and the loop is back at msg := <-c
ConsumerProcess(c) ==
  /\ cons[c] = "got"
  /\ recvd' = [recvd EXCEPT ![c] = @ + 1]
  /\ IF buf[c] # <<>>
       THEN /\ held' = [held EXCEPT ![c] = Head(buf[c])]
            /\ buf' = [buf EXCEPT ![c] = Tail(@)]
            /\ UNCHANGED cons
       ELSE /\ cons' = [cons EXCEPT ![c] = "recv"]
            /\ held' = [held EXCEPT ![c] = NoMsg]
            /\ UNCHANGED buf
  /\ UNCHANGED <<loggerVars, written, procVars, calls, splits, attempts, sent, closed, process, ret>>

\* the consumer goroutine gives up its channel: close(c) and return
ConsumerClose(c) ==
  /\ cons[c] \in {"busy", "got"}
  /\ c \notin closed
  /\ closed' = closed \cup {c}
  /\ cons' = [cons EXCEPT ![c] = "quit"]
  /\ held' = [held EXCEPT ![c] = NoMsg]
  /\ UNCHANGED <<loggerVars, written, procVars, calls, splits, attempts, buf, sent, recvd,
                 process, ret>>

\* ------------------------------------------------------------ calls of the pure functions

ToLower(t) == [i \in DOMAIN t |-> LowerChar(t[i])]
Capitalized(t) == [i \in DOMAIN t |-> IF i = 1 THEN t[i] ELSE LowerChar(t[i])]

StringInputs ==
  {LevelNames[i] : i \in DOMAIN LevelNames}
    \cup {ToLower(LevelNames[i]) : i \in DOMAIN LevelNames}
    \cup {Capitalized(LevelNames[i]) : i \in DOMAIN LevelNames}
    \cup { <<>>, <<"W","A","R","N">>, <<"E","R","R","O","R">>, <<"e","r","r"," ">>,
           <<"D","E","B","U","G","S">>, <<"d","E","b","U","g">>, <<"3">>, <<"N","U","L","L">>, INVALID }

ParseInputs ==
  [type : {"string"}, val : StringInputs]
    \cup [type : {"int"}, val : Ints]
    \cup [type : {"float64"}, val : Floats]
    \cup [type : {"bool"}, val : BOOLEAN]
    \cup [type : {"nil"}, val : {Nil}]

\* level, err := ParseLevel(input)
ParseLevelCall(input) ==
  LET r == ParseLevel(input) IN
  /\ ret' = [fn |-> "ParseLevel", in |-> input, level |-> r.level, err |-> r.err]
  /\ UNCHANGED <<loggerVars, written, procVars, calls, splits, attempts, chanVars, process>>

\* l, err := NewLevel(level, inc, w, "", flag); on success l is the new logger
NewLevelCall(level, inc) ==
  LET r == NewLevel(level, inc) IN
  /\ ret' = [fn |-> "NewLevel", in |-> [level |-> level, inc |-> inc],
             logger |-> r.logger, err |-> r.err]
  /\ IF r.err = Nil
       THEN /\ Level' = r.logger[1].Level
            /\ IncludeLevel' = r.logger[1].IncludeLevel
            /\ Timeout' = r.logger[1].Timeout
            /\ MissedMessages' = r.logger[1].MissedMessages
            /\ levelChannels' = r.logger[1].levelChannels
            /\ allChannels' = r.logger[1].allChannels
       ELSE UNCHANGED loggerVars
  /\ UNCHANGED <<written, procVars, calls, splits, attempts, chanVars, process>>

\* s := v.String()
StringCall(v) ==
  /\ ret' = [fn |-> "String", in |-> v, str |-> String(v)]
  /\ UNCHANGED <<loggerVars, written, procVars, calls, splits, attempts, chanVars, process>>

\* s := v.String(); n, err := ParseLevel(s); s2 := n.String()
RoundTripCall(v) ==
  LET s == String(v)
      r == ParseLevel([type |-> "string", val |-> s])
  IN /\ ret' = [fn |-> "RoundTrip", in |-> v, str |-> s,
                level |-> r.level, err |-> r.err, str2 |-> String(r.level)]
     /\ UNCHANGED <<loggerVars, written, procVars, calls, splits, attempts, chanVars, process>>

\* ------------------------------------------------------------ specification

Next ==
  \/ \E t \in Thresholds : SetLevel(Owner, t)
  \/ \E c \in Chans \cup {NilChan}, sendAll \in BOOLEAN : Split(Owner, c, sendAll)
  \/ \E level \in MsgLevels, msg \in Texts : Call(Owner, level, msg)
  \/ Deliver(Owner)
  \/ TimerFire(Owner)
  \/ Increment(Owner)
  \/ LevelCheck(Owner)
  \/ Output(Owner)
  \/ Return(Owner)
  \/ \E c \in Chans : ConsumerReceive(c)
  \/ \E c \in Chans : ConsumerProcess(c)

Spec == Init /\ [][Next]_vars

\* the pure functions applied to inputs drawn from the bounded sets
NextFn ==
  \/ \E input \in ParseInputs : ParseLevelCall(input)
  \/ \E level \in Ints, inc \in BOOLEAN : NewLevelCall(level, inc)
  \/ \E v \in Ints : StringCall(v)
  \/ \E v \in Ints : RoundTripCall(v)

SpecFn == Init /\ [][NextFn]_vars

\* ------------------------------------------------------------ properties

\* the dispatch the owner made has returned and nothing has happened since
Returned == pc[Owner] = "done"
M == cur[Owner].Level
tr == trace[Owner]
Sends(list) == {k \in DOMAIN tr : tr[k].ev = "send" /\ tr[k].list = list}
TimedOut == {k \in DOMAIN tr : tr[k].ev = "send" /\ ~tr[k].ok}
\* registration i of the list was sent the message and accepted it
Received(list, i) ==
  \E k \in Sends(list) : tr[k].i = i /\ tr[k].ch = chanList(list)[i] /\ tr[k].ok

\* C1: with a threshold T in EMERG..DEBUG as Logger.Level, a returned call
\* prefixOutput(M, text) has invoked the writer exactly once if M <= T and not
\* at all if M > T.
C1_WriterIffPasses ==
  (Returned /\ Level \in EMERG..DEBUG /\ M \in EMERG..DEBUG)
    => Len(written) = (IF M <= Level THEN 1 ELSE 0)

C1_Witness ==
  /\ Returned /\ Level = ERR /\ M = ERR /\ Len(written) = 1

\* C2: in a returned dispatch none of whose deliveries timed out, every channel
\* registered with sendAll = true received the message whatever M and T are, and
\* every channel registered with sendAll = false received it iff M <= T.
C2_AllAlwaysFilteredIffPasses ==
  (Returned /\ TimedOut = {} /\ Level \in EMERG..DEBUG)
    => /\ \A i \in DOMAIN allChannels : Received("all", i)
       /\ \A i \in DOMAIN levelChannels : Received("level", i) <=> (M <= Level)

C2_Witness ==
  /\ Returned /\ TimedOut = {} /\ M > Level /\ Level \in EMERG..DEBUG
  /\ allChannels # <<>> /\ levelChannels # <<>>
  /\ Received("all", 1) /\ ~Received("level", 1)

\* C3: at every moment of a dispatch the events so far are an initial part of
\* the order: attempts on allChannels[1..], the level check, attempts on
\* levelChannels[1..], one writer call; and the attempt or step in progress is
\* the next one of that order.
nAll == Len(allChannels)
nLevel == Len(levelChannels)
Expected(k) ==
  IF k <= nAll
    THEN tr[k].ev = "send" /\ tr[k].list = "all" /\ tr[k].i = k /\ tr[k].ch = allChannels[k]
  ELSE IF k = nAll + 1
    THEN tr[k].ev = "check"
  ELSE IF k <= nAll + 1 + nLevel
    THEN /\ tr[k].ev = "send" /\ tr[k].list = "level" /\ tr[k].i = k - nAll - 1
         /\ tr[k].ch = levelChannels[k - nAll - 1]
  ELSE k = nAll + nLevel + 2 /\ tr[k].ev = "write"

\* the number of events that precede the step the dispatcher is at
Position ==
  CASE pc[Owner] = "select" ->
         IF phase[Owner] = "all" THEN idx[Owner] - 1 ELSE nAll + idx[Owner]
    [] pc[Owner] = "inc" ->
         IF phase[Owner] = "all" THEN idx[Owner] ELSE nAll + 1 + idx[Owner]
    [] pc[Owner] = "check" -> nAll
    [] pc[Owner] = "output" -> nAll + 1 + nLevel
    [] pc[Owner] = "done" ->
         IF tr[nAll + 1].pass THEN nAll + nLevel + 2 ELSE nAll + 1
    [] OTHER -> 0

C3_TotalOrder ==
  /\ \A k \in DOMAIN tr : Expected(k)
  /\ Len(tr) = Position

C3_Witness ==
  /\ Returned /\ nAll = 1 /\ nLevel = 1 /\ Len(tr) = 4
  /\ allChannels[1] # levelChannels[1]

\* C4: with dispatch calls made one after another, every attempt that has ended
\* was counted exactly once, as a message accepted by its channel or as one
\* increment of MissedMessages; a returned dispatch made one attempt per
\* registration it reached, and MissedMessages never moves except by +1.
SentTotal == sent[1]
Pending == IF pc[Owner] \in {"select", "inc"} THEN 1 ELSE 0

C4_Counted ==
  /\ MissedMessages + SentTotal + Pending = attempts
  /\ Returned =>
       /\ Cardinality(Sends("all")) = nAll
       /\ Cardinality(Sends("level")) = (IF M <= Level THEN nLevel ELSE 0)
  /\ (allChannels = <<1>> /\ levelChannels = <<>> /\ attempts = calls /\ Pending = 0)
       => sent[1] + MissedMessages = calls

C4_Witness ==
  /\ Returned /\ allChannels = <<1>> /\ levelChannels = <<>>
  /\ calls = MaxCalls /\ attempts = calls /\ sent[1] >= 1 /\ MissedMessages >= 1

\* C5: a dispatch call that has started returns, when the timers that were
\* started fire and the dispatching goroutine keeps running; consumers are
\* free never to receive.  On return it has waited at most once per registered
\* consumer and, when the message passes the threshold, has called the writer.
Fairness ==
  /\ WF_vars(TimerFire(Owner))
  /\ WF_vars(Increment(Owner))
  /\ WF_vars(LevelCheck(Owner))
  /\ WF_vars(Output(Owner))

\* SpecLive draws thresholds and message levels from both sides of the
\* comparison: termination depends on the levels only through it
LiveThresholds == {NULL, ERR, DEBUG}
LiveLevels == {EMERG, ERR, WARNING, DEBUG}

InitLive ==
  /\ \E level \in LiveThresholds, inc \in BOOLEAN : Constructed(level, inc)
  /\ RestInit

NextLive ==
  \/ \E t \in LiveThresholds : SetLevel(Owner, t)
  \/ \E c \in Chans \cup {NilChan}, sendAll \in BOOLEAN : Split(Owner, c, sendAll)
  \/ \E level \in LiveLevels, msg \in Texts : Call(Owner, level, msg)
  \/ Deliver(Owner)
  \/ TimerFire(Owner)
  \/ Increment(Owner)
  \/ LevelCheck(Owner)
  \/ Output(Owner)
  \/ Return(Owner)
  \/ \E c \in Chans : ConsumerReceive(c)
  \/ \E c \in Chans : ConsumerProcess(c)

SpecLive == InitLive /\ [][NextLive]_vars /\ Fairness

C5_CallReturns ==
  (pc[Owner] \in {"select", "inc", "check", "output"})
    ~> /\ Returned
       /\ Cardinality(Sends("all") \cup Sends("level")) <= nAll + nLevel
       /\ M <= Level => Len(written) = 1

C5_Witness ==
  /\ Returned /\ cons[1] = "busy" /\ recvd[1] = 0 /\ sent[1] = 0 /\ 1 \in {allChannels[i] : i \in DOMAIN allChannels}
  /\ nAll + nLevel = MaxSplits /\ Cardinality(TimedOut) = MaxSplits
  /\ Len(written) = 1

C7_NewLevelBound ==
  ret.fn = "NewLevel" =>
    /\ ret.in.level > DEBUG => (ret.err = InvalidLogLevelError /\ ret.logger = NilLogger)
    /\ ret.in.level \in NULL..DEBUG =>
         /\ ret.err = Nil
         /\ ret.logger # NilLogger
         /\ ret.logger[1].Level = ret.in.level
         /\ Level = ret.in.level

C7_Witness ==
  ret.fn = "NewLevel" /\ ret.in.level = DEBUG + 1 /\ ret.err = InvalidLogLevelError

\* C8: NewLevel with a level below NULL or above DEBUG fails with
\* InvalidLogLevelError and returns no Logger.
C8_RejectsOutsideRange ==
  (ret.fn = "NewLevel" /\ (ret.in.level < NULL \/ ret.in.level > DEBUG))
    => (ret.err = InvalidLogLevelError /\ ret.logger = NilLogger)

\* C9: ParseLevel of an input that is neither a string nor a number returns
\* NULL together with InvalidLogLevelError.
C9_OtherInputIsError ==
  (ret.fn = "ParseLevel" /\ ret.in.type \notin {"string", "int", "float64"})
    => (ret.level = NULL /\ ret.err = InvalidLogLevelError)

\* C10: ParseLevel of an int n returns LogLevel(n) in every case, with a nil
\* error iff 0 <= n <= 7 and with InvalidLogLevelError otherwise.
C10_ParseInt ==
  (ret.fn = "ParseLevel" /\ ret.in.type = "int")
    => /\ ret.level = ret.in.val
       /\ ret.err = (IF 0 <= ret.in.val /\ ret.in.val <= 7 THEN Nil ELSE InvalidLogLevelError)

C10_Witness ==
  ret.fn = "ParseLevel" /\ ret.in.type = "int" /\ ret.in.val = NULL - 1
    /\ ret.level = NULL - 1 /\ ret.err = InvalidLogLevelError

\* the name a level in EMERG..DEBUG is written with
NameOf(i) ==
  CASE i = EMERG -> <<"E","M","E","R","G">>
    [] i = ALERT -> <<"A","L","E","R","T">>
    [] i = CRIT -> <<"C","R","I","T">>
    [] i = ERR -> <<"E","R","R">>
    [] i = WARNING -> <<"W","A","R","N","I","N","G">>
    [] i = NOTICE -> <<"N","O","T","I","C","E">>
    [] i = INFO -> <<"I","N","F","O">>
    [] i = DEBUG -> <<"D","E","B","U","G">>

\* the same letters, whatever their case
EqualFold(a, b) ==
  /\ Len(a) = Len(b)
  /\ \A k \in DOMAIN a : LowerChar(a[k]) = LowerChar(b[k])

\* C11: ParseLevel of a string returns level i and a nil error when the string
\* is the i-th canonical name in any mixture of upper and lower case, and NULL
\* with InvalidLogLevelError when it is none of the eight names.
C11_ParseString ==
  (ret.fn = "ParseLevel" /\ ret.in.type = "string") =>
    /\ \A i \in EMERG..DEBUG :
         EqualFold(ret.in.val, NameOf(i)) => (ret.level = i /\ ret.err = Nil)
    /\ (\A i \in EMERG..DEBUG : ~EqualFold(ret.in.val, NameOf(i)))
         => (ret.level = NULL /\ ret.err = InvalidLogLevelError)

\* "Warning" has been parsed as WARNING
C11_Witness ==
  /\ ret.fn = "ParseLevel"
  /\ ret.in = [type |-> "string", val |-> <<"W","a","r","n","i","n","g">>]
  /\ ret.level = WARNING
  /\ ret.err = Nil

\* C12: String returns the canonical name for each level 0..7 and "INVALID"
\* for every other integer (NULL, -2, 8, ...), and never indexes LevelNames
\* outside its bounds.
C12_String ==
  ret.fn = "String" =>
    /\ ret.str # IndexOutOfRange
    /\ ret.in \in EMERG..DEBUG => ret.str = NameOf(ret.in)
    /\ ret.in \notin EMERG..DEBUG => ret.str = <<"I","N","V","A","L","I","D">>

\* NULL.String() has returned "INVALID"
C12_Witness ==
  /\ ret.fn = "String"
  /\ ret.in = NULL
  /\ ret.str = <<"I","N","V","A","L","I","D">>

\* C13: for every level L in 0..7, ParseLevel(String(L)) returns L with a nil
\* error, and so String(ParseLevel(String(L))) is String(L) again.
C13_RoundTrip ==
  (ret.fn = "RoundTrip" /\ ret.in \in EMERG..DEBUG) =>
    /\ ret.level = ret.in
    /\ ret.err = Nil
    /\ ret.str2 = ret.str

\* NOTICE has been printed as "NOTICE" and parsed back
C13_Witness ==
  /\ ret.fn = "RoundTrip"
  /\ ret.in = NOTICE
  /\ ret.str = <<"N","O","T","I","C","E">>
  /\ ret.level = NOTICE

\* C14: a returned dispatch of (M, text) that passes the threshold has handed
\* the writer the name of M, one space and text when IncludeLevel is true, and
\* exactly text when it is false; a logger at ERR with IncludeLevel writes
\* "ERR " and the text for an ERR message and nothing for a WARNING message.
C14_WrittenText ==
  (Returned /\ M \in EMERG..DEBUG) =>
    /\ M <= Level =>
         written = << IF IncludeLevel
                        THEN NameOf(M) \o <<" ">> \o cur[Owner].Message
                        ELSE cur[Owner].Message >>
    /\ (Level = ERR /\ IncludeLevel /\ M = ERR /\ cur[Owner].Message = <<"h","i">>)
         => written = << <<"E","R","R"," ","h","i">> >>
    /\ (Level = ERR /\ IncludeLevel /\ M = WARNING) => written = <<>>

\* an ALERT message has been written with its own name by a logger at DEBUG
C14_Witness ==
  /\ Returned
  /\ Level = DEBUG
  /\ IncludeLevel
  /\ M = ALERT
  /\ written = << <<"A","L","E","R","T"," ","h","i">> >>

\* the process has neither exited nor panicked: its goroutines run
Alive == process = Running

\* SpecClose: the consumer may close its channel at any moment
NextClose ==
  \/ Alive /\ \E t \in LiveThresholds : SetLevel(Owner, t)
  \/ Alive /\ \E c \in Chans \cup {NilChan}, sendAll \in BOOLEAN : Split(Owner, c, sendAll)
  \/ Alive /\ \E level \in LiveLevels, msg \in Texts : Call(Owner, level, msg)
  \/ Alive /\ Deliver(Owner)
  \/ Alive /\ SendOnClosed(Owner)
  \/ Alive /\ TimerFire(Owner)
  \/ Alive /\ Increment(Owner)
  \/ Alive /\ LevelCheck(Owner)
  \/ Alive /\ Output(Owner)
  \/ Alive /\ Return(Owner)
  \/ Alive /\ \E c \in Chans : ConsumerReceive(c)
  \/ Alive /\ \E c \in Chans : ConsumerProcess(c)
  \/ Alive /\ \E c \in Chans : ConsumerClose(c)

SpecClose == InitLive /\ [][NextClose]_vars

\* C15 as stated: a dispatch through Debug ... Emerg never panics or aborts the
\* caller, whatever state a registered channel is in (unread, nil, or closed by
\* its consumer); a failed delivery shows only as a MissedMessages increment.
C15_DispatchNeverPanics ==
  /\ process = Running
  /\ pc[Owner] # "panic"

\* SpecConc: every goroutine of Procs calls the entry points of one shared
\* logger; consumers are registered while no dispatch is running.  The levels
\* are taken from both sides of the one threshold.
ConcThresholds == {ERR}
ConcLevels == {ERR, WARNING}

InitConc ==
  /\ \E inc \in BOOLEAN, level \in ConcThresholds : Constructed(level, inc)
  /\ RestInit

NextConc ==
  \/ /\ \A q \in Procs : pc[q] = "idle"
     /\ \E c \in Chans \cup {NilChan}, sendAll \in BOOLEAN : Split(Owner, c, sendAll)
  \/ \E p \in Procs, level \in ConcLevels, msg \in Texts : Call(p, level, msg)
  \/ \E p \in Procs : Deliver(p)
  \/ \E p \in Procs : TimerFire(p)
  \/ \E p \in Procs : Increment(p)
  \/ \E p \in Procs : LevelCheck(p)
  \/ \E p \in Procs : Output(p)
  \/ \E p \in Procs : Return(p)
  \/ \E c \in Chans : ConsumerReceive(c)
  \/ \E c \in Chans : ConsumerProcess(c)

SpecConc == InitConc /\ [][NextConc]_vars

\* C16 as stated: MissedMessages never decreases, whatever the interleaving of
\* the dispatch calls, several concurrent dispatches timing out included.
C16_MissedNeverDecreases == [][MissedMessages' >= MissedMessages]_vars

\* SpecExit: the owner also calls the Fatal and Panic entry points.  The
\* goroutine that called keeps running until the process ends.
Shapes == {"", "ln", "f"}
ExitThresholds == {NULL, DEBUG}
ExitLevels == {DEBUG}

InitExit ==
  /\ \E level \in ExitThresholds, inc \in BOOLEAN : Constructed(level, inc)
  /\ RestInit

NextExit ==
  \/ Alive /\ \E c \in Chans \cup {NilChan}, sendAll \in BOOLEAN : Split(Owner, c, sendAll)
  \/ Alive /\ \E level \in ExitLevels, msg \in Texts : Call(Owner, level, msg)
  \/ Alive /\ \E shape \in Shapes, msg \in Texts : Fatal(Owner, shape, msg)
  \/ Alive /\ \E shape \in Shapes, msg \in Texts : Panic(Owner, shape, msg)
  \/ Alive /\ Deliver(Owner)
  \/ Alive /\ TimerFire(Owner)
  \/ Alive /\ Increment(Owner)
  \/ Alive /\ LevelCheck(Owner)
  \/ Alive /\ Output(Owner)
  \/ Alive /\ Return(Owner)
  \/ Alive /\ Exit(Owner)
  \/ Alive /\ PanicWith(Owner)
  \/ Alive /\ \E c \in Chans : ConsumerReceive(c)
  \/ Alive /\ \E c \in Chans : ConsumerProcess(c)

FairnessExit ==
  /\ Fairness
  /\ WF_vars(Exit(Owner))
  /\ WF_vars(PanicWith(Owner))

SpecExit == InitExit /\ [][NextExit]_vars /\ FairnessExit

\* the dispatch of the owner's EMERG message has run to its end: one attempt
\* per 'all' registration, the level check and, when EMERG passes, one attempt
\* per filtered registration and the writer call
DispatchComplete ==
  /\ M = EMERG
  /\ Len(tr) = (IF EMERG <= Level THEN nAll + nLevel + 2 ELSE nAll + 1)
  /\ \A k \in DOMAIN tr : Expected(k)
  /\ Len(written) = (IF EMERG <= Level THEN 1 ELSE 0)

InsideCall == pc[Owner] \in {"select", "inc", "check", "output", "done"}

\* C17: a call of Fatal, Fatalln or Fatalf runs the complete dispatch of an
\* EMERG message and only then ends the process with exit status 1, whatever
\* the threshold (also NULL, which suppresses the message); Panic, Panicln and
\* Panicf dispatch in the same way and then panic with the formatted text.
\* Neither returns to its caller.
C17_FatalDispatchesThenEnds ==
  /\ [](process.state = "exited" =>
          /\ process.status = 1
          /\ after[Owner] = "exit"
          /\ DispatchComplete)
  /\ [](process.state = "panicked" =>
          /\ after[Owner] = "panic"
          /\ DispatchComplete
          /\ process.value = cur[Owner].Message
          /\ process.value \in {Format(shape, text) : shape \in Shapes, text \in Texts})
  /\ [](pc[Owner] = "idle" => after[Owner] = "return")
  /\ ((InsideCall /\ after[Owner] = "exit") ~> process.state = "exited")
  /\ ((InsideCall /\ after[Owner] = "panic") ~> process.state = "panicked")

\* Fatal on a logger at NULL: nothing was written and the process has exited
\* with status 1 after an 'all' consumer was tried
C17_Witness ==
  /\ process = [state |-> "exited", status |-> 1]
  /\ Level = NULL
  /\ written = <<>>
  /\ nAll >= 1
  /\ Len(tr) = nAll + 1

\* SpecTest: the logger is constructed as in TestLevels and TestChannels, at
\* EMERG with IncludeLevel; any other threshold is one the owner assigned later
InitTest ==
  /\ Constructed(TestLevel, TRUE)
  /\ RestInit

SpecTest == InitTest /\ [][Next]_vars

\* C18: the threshold is live.  A dispatch made after the owner assigned T' to
\* Logger.Level decides the writer call and the delivery to filtered consumers
\* against T', the value Level holds then, not against the construction level.
C18_ThresholdIsLive ==
  Returned =>
    /\ tr[nAll + 1].pass = (M <= Level)
    /\ Len(written) = (IF M <= Level THEN 1 ELSE 0)
    /\ Cardinality(Sends("level")) = (IF M <= Level THEN nLevel ELSE 0)

\* on the logger constructed at EMERG the owner has set Level to WARNING, and a
\* WARNING message was then written and received by a filtered consumer
C18_Witness ==
  /\ Returned
  /\ Level = WARNING
  /\ Level # TestLevel
  /\ M = WARNING
  /\ Len(written) = 1
  /\ nLevel >= 1
  /\ Received("level", 1)

\* every delivery the returned dispatch attempted to a filtered consumer timed out
AllFilteredTimedOut ==
  /\ nLevel >= 1
  /\ \A k \in Sends("level") : ~tr[k].ok

\* C19: the writer call does not depend on how the deliveries ended: a message
\* that passes the threshold is written exactly once, also when every delivery
\* to a filtered consumer timed out.  On a logger at NOTICE with one filtered
\* consumer that never reads, the first dispatch of a NOTICE message leaves
\* MissedMessages = 1 and the writer called once.
C19_WriterDespiteTimeouts ==
  /\ (Returned /\ M <= Level) =>
       /\ Len(written) = 1
       /\ tr[Len(tr)].ev = "write"
       /\ AllFilteredTimedOut => MissedMessages >= nLevel
  /\ (Returned /\ calls = 1 /\ Level = NOTICE /\ M = NOTICE /\ nAll = 0
        /\ levelChannels = <<1>> /\ cons[1] = "busy")
       => (MissedMessages = 1 /\ Len(written) = 1)

\* the NOTICE logger with one filtered consumer that has not read: the first
\* NOTICE message timed out there and was written
C19_Witness ==
  /\ Returned /\ calls = 1 /\ Level = NOTICE /\ M = NOTICE /\ nAll = 0
  /\ levelChannels = <<1>> /\ cons[1] = "busy"
  /\ AllFilteredTimedOut
  /\ MissedMessages = 1
  /\ Len(written) = 1

\* the step is one of the owner's dispatch: the call, a step inside
\* prefixOutput, or the return
DispatchStep == procVars' # procVars
\* the level of the message that dispatch is about
StepLevel == IF pc[Owner] = "idle" THEN cur'[Owner].Level ELSE cur[Owner].Level

\* C20: no step of a dispatch changes Level, IncludeLevel, Timeout or either
\* consumer list; MissedMessages is the only Logger field it may change.  A
\* suppressed dispatch (M > Level) on a logger without 'all' consumers changes
\* nothing at all: it enters no select, leaves MissedMessages alone and does
\* not call the writer, also when its filtered consumers would time out.
C20_Frame ==
  [][ DispatchStep =>
        /\ UNCHANGED <<Level, IncludeLevel, Timeout, levelChannels, allChannels>>
        /\ (nAll = 0 /\ StepLevel > Level) =>
             /\ UNCHANGED <<MissedMessages, attempts, sent, buf, written>>
             /\ written = <<>>
             /\ pc'[Owner] \in {"check", "done", "idle"} ]_vars

\* a suppressed message has returned on a logger whose only consumer is a
\* filtered one on the nil channel: nothing was attempted, counted or written
C20_Witness ==
  /\ Returned
  /\ nAll = 0
  /\ levelChannels = <<NilChan>>
  /\ M > Level
  /\ tr = << [ev |-> "check", pass |-> FALSE] >>
  /\ MissedMessages = 0
  /\ attempts = 0
  /\ written = <<>>

\* list new is list old with zero or one entry appended at its end
Extends(old, new) ==
  /\ Len(new) \in {Len(old), Len(old) + 1}
  /\ \A i \in DOMAIN old : new[i] = old[i]

\* how many of the returned dispatch's attempts on the list went to channel c,
\* and how many entries of the list are c
AttemptsOn(list, c) == Cardinality({k \in Sends(list) : tr[k].ch = c})
EntriesOf(list, c) == Cardinality({i \in DOMAIN chanList(list) : chanList(list)[i] = c})

\* C21: Split only appends and nothing removes.  Every Split call adds one
\* entry at the end of the list its sendAll names, also when the channel is
\* already registered, and no step shortens or reorders a list; a returned
\* dispatch attempted each channel once per entry it has in the 'all' list
\* and, when the message passed, once per entry in the filtered list, so a
\* channel in both lists was attempted twice.
C21_SplitAppendOnly ==
  /\ [](nAll + nLevel = splits)
  /\ [][/\ Extends(allChannels, allChannels')
        /\ Extends(levelChannels, levelChannels')]_vars
  /\ [](Returned => \A c \in Chans \cup {NilChan} :
          /\ AttemptsOn("all", c) = EntriesOf("all", c)
          /\ AttemptsOn("level", c) = (IF M <= Level THEN EntriesOf("level", c) ELSE 0))

\* channel 1 is registered twice in the 'all' list and was attempted twice
C21_Witness ==
  /\ Returned
  /\ allChannels = <<1, 1>>
  /\ AttemptsOn("all", 1) = 2

\* C22 as stated: while the receiver goroutine of a channel registered only
\* with sendAll = false holds a message it has taken and compares it with
\* Logger.Level, the message's level is at most Logger.Level, the owner being
\* free to assign Logger.Level between dispatch calls.
C22_ReceiverSeesPassingLevel ==
  (cons[1] = "got" /\ nAll = 0 /\ nLevel >= 1) => held[1].Level <= Level

\* C23 as stated: with one 'all' consumer that loops "receive, then count" and
\* no delivery timed out, when the N-th dispatch call has returned the
\* consumer's counter is N, the number of dispatch calls made.
C23_ReceivedEqualsCalls ==
  (Returned /\ allChannels = <<1>> /\ nLevel = 0
     /\ MissedMessages = 0 /\ sent[1] = calls)
    => recvd[1] = calls

\* no dispatch is running
AllIdle == \A p \in Procs : pc[p] = "idle"
\* with no dispatch running, every select entered has ended: in a delivery or
\* in a timeout
TimeoutsTotal == attempts - SentTotal

\* C24: MissedMessages++ is an unsynchronized read-modify-write: the value a
\* goroutine stores is one more than the value it read when its timeout was
\* taken, whatever other goroutines stored in between.  So with concurrent
\* dispatches the counter never exceeds the number of timeouts, is at least 1
\* once there was one, and can end below the number of timeouts.
C24_UnsynchronizedIncrement ==
  /\ [][\A p \in Procs : (pc[p] = "inc" /\ pc'[p] # "inc")
                             => MissedMessages' = reg[p] + 1]_vars
  /\ [](AllIdle => /\ MissedMessages <= TimeoutsTotal
                   /\ TimeoutsTotal >= 1 => MissedMessages >= 1)

\* two concurrent dispatches have returned, each timed out once, and
\* MissedMessages is 1
C24_Witness ==
  /\ AllIdle
  /\ calls = 2
  /\ splits = 1
  /\ TimeoutsTotal = 2
  /\ MissedMessages = 1

\* SpecString: prefixOutput called directly with any LogLevel value, as
\* TestString does: the eight levels, -1 and maxLevel + 1
StringLevels == (EMERG..DEBUG) \cup {-1, maxLevel + 1}

NextString ==
  \/ \E t \in Thresholds : SetLevel(Owner, t)
  \/ \E level \in StringLevels, msg \in Texts : Call(Owner, level, msg)
  \/ LevelCheck(Owner)
  \/ Output(Owner)
  \/ Return(Owner)

SpecString == InitTest /\ [][NextString]_vars

\* strings.Contains(t, sub)
Contains(t, sub) ==
  \E i \in 0..(Len(t) - Len(sub)) : SubSeq(t, i + 1, i + Len(sub)) = sub

\* strings.HasPrefix(t, sub)
HasPrefix(t, sub) == Len(t) >= Len(sub) /\ SubSeq(t, 1, Len(sub)) = sub

\* C25 as stated: on a logger with IncludeLevel, a returned dispatch of a
\* message with a level in 0..7 has written no text containing "INVALID", and
\* a returned dispatch of a message with level -1 or maxLevel + 1 has written
\* a text that starts with "INVALID".
C25_InvalidPrefix ==
  (Returned /\ IncludeLevel) =>
    /\ M \in EMERG..DEBUG =>
         \A k \in DOMAIN written : ~Contains(written[k], <<"I","N","V","A","L","I","D">>)
    /\ M \in {-1, maxLevel + 1} =>
         /\ Len(written) = 1
         /\ HasPrefix(written[1], <<"I","N","V","A","L","I","D">>)

\* ------------------------------------------------------------ part_000
\* The earlier copy of the package: no consumer channels, prefixOutput is the
\* level check followed by the writer call.

\* v.String() of part_000: the index expression is on the out-of-bounds branch
Part000String(v) ==
  IF v < 0 \/ v > maxLevel THEN At(LevelNames, v) ELSE INVALID

\* what prefixOutput(level, msg) of part_000 hands to logger.Output
Part000Output(level, msg) ==
  IF level > Level
    THEN <<>>
    ELSE IF IncludeLevel
      THEN << Part000String(level) \o <<" ">> \o msg >>
      ELSE << msg >>

\* s := v.String()
Part000StringCall(v) ==
  /\ ret' = [fn |-> "part_000.String", in |-> v, str |-> Part000String(v)]
  /\ UNCHANGED <<loggerVars, written, procVars, calls, splits, attempts, chanVars, process>>

\* logger.prefixOutput(level, msg), run to its return; the caller had cleared
\* the writer before
Part000PrefixOutputCall(level, msg) ==
  /\ pc[Owner] = "idle"
  /\ written' = Part000Output(level, msg)
  /\ ret' = [fn |-> "part_000.prefixOutput", in |-> [level |-> level, msg |-> msg]]
  /\ UNCHANGED <<loggerVars, procVars, calls, splits, attempts, chanVars, process>>

NextPart000 ==
  \/ \E t \in Thresholds : SetLevel(Owner, t)
  \/ \E v \in Ints : Part000StringCall(v)
  \/ \E level \in MsgLevels, msg \in Texts : Part000PrefixOutputCall(level, msg)

SpecPart000 == Init /\ [][NextPart000]_vars

\* C26 as stated: in part_000, String returns the canonical name for a level
\* in 0..7 and "INVALID" for every other integer without indexing outside
\* LevelNames, and a dispatch that passes the threshold with IncludeLevel set
\* writes the message level's name, a space and the text.
C26_Part000String ==
  /\ ret.fn = "part_000.String" =>
       /\ ret.str # IndexOutOfRange
       /\ ret.in \in EMERG..DEBUG => ret.str = NameOf(ret.in)
       /\ ret.in \notin EMERG..DEBUG => ret.str = <<"I","N","V","A","L","I","D">>
  /\ (ret.fn = "part_000.prefixOutput" /\ IncludeLevel /\ ret.in.level <= Level) =>
       written = << NameOf(ret.in.level) \o <<" ">> \o ret.in.msg >>

====
